---------------------------- MODULE Spec2Model ----------------------------
(***************************************************************************)
(* Model of the electric-field core of the repository:                     *)
(*   src/electric_field.py  ElectricField.__init__,                        *)
(*                          ElectricField.calculate_field_at_point,        *)
(*                          ElectricField.calculate_field_grid             *)
(*   src/visualization.py   FieldVisualizer.create_plot (its grid call)    *)
(*                                                                         *)
(* Number representation.  Lengths are integers in a lattice unit of half  *)
(* the singularity threshold (1e-10 m is EPS = 2 units), so that there are *)
(* points that differ from the charge position and are still closer than   *)
(* the threshold.  The norm test r_magnitude < 1e-10 is decided on the     *)
(* squares.  A field component  k*q*r_i / |r|^3  is kept exactly as the    *)
(* pair <<k*q*r_i, |r|^2>>: the pair <<a, d>> denotes the real number      *)
(* a / d^(3/2); the float 0.0 is <<0, 1>>.  Coulomb's constant 8.99e9 is   *)
(* 899 in units of 1e7.  sin and cos are fixed-point (Bhaskara's rational  *)
(* approximation on whole degrees), as numpy's are approximations too.     *)
(***************************************************************************)
EXTENDS Integers, Sequences, FiniteSets, TLC

VARIABLES
    charge,        \* self.charge
    position,      \* self.position
    k,             \* self.k
    ctorCharge,    \* the charge argument the constructor was given
    ctorPosition,  \* the position argument the constructor was given
    pc,            \* "idle": between calls; "loop": inside calculate_field_grid's loops
    op,            \* the call made last (or in progress): "none", "eval", "grid", "plot"
    argPoint,      \* calculate_field_at_point: the point the caller passed
    callerPoint,   \* the caller's point object after the call
    radius,        \* calculate_field_grid: argument radius
    n_points,      \* calculate_field_grid: argument n_points
    i, j,          \* calculate_field_grid: loop indices
    X, Y, Z,       \* calculate_field_grid: position arrays
    Ex, Ey, Ez,    \* calculate_field_grid: field arrays
    callsAt,       \* number of calculate_field_at_point calls made for each (i, j)
    result,        \* what the last call returned or raised
    saved,         \* a SampleSet the caller kept from an earlier calculate_field_grid
    callsSince     \* calls completed since `saved` was kept (capped at 2)

vars == <<charge, position, k, ctorCharge, ctorPosition, pc, op, argPoint, callerPoint,
          radius, n_points, i, j, X, Y, Z, Ex, Ey, Ez, callsAt, result,
          saved, callsSince>>

---------------------------------------------------------------------------
\* Bounds of the model
MaxQ == 2          \* charge magnitudes -MaxQ..MaxQ
MaxCoord == 1      \* coordinates of query points -MaxCoord..MaxCoord
MaxRadius == 3     \* radii -1..MaxRadius
MaxN == 3          \* n_points -1..MaxN
TrigScale == 100   \* fixed-point resolution of sin and cos

\* Program constants
COULOMB_K == 899   \* self.k = 8.99e9, in units of 1e7
EPS == 2           \* 1e-10, in lattice units
PI == 180          \* np.pi, in degrees
GRID_ARITY == 2    \* calculate_field_grid(self, radius, n_points)
PLOT_N_POINTS == 20

Coords == (-MaxCoord)..MaxCoord
Charges == (-MaxQ)..MaxQ
\* query points: every point of 1 to 3 coordinates, the empty point, and
\* points of 4 coordinates
Points == UNION {[1..len -> Coords] : len \in 0..3} \cup [1..4 -> {0, MaxCoord}]
\* the points of the calls made between two calculate_field_grid calls
FewPoints == {<<0, 0>>, <<1, 0, -1>>, <<1>>, <<0, 1, 0, 0>>}
CtorPositions == {<<0, 0>>, <<1, -1>>, <<0, 0, 0>>, <<0, 0, 1>>, <<1, 0, -1>>}
Radii == (-1)..MaxRadius
NPoints == (-1)..MaxN

---------------------------------------------------------------------------
\* Helpers

Sign(x) == IF x > 0 THEN 1 ELSE IF x < 0 THEN -1 ELSE 0

\* a / b rounded to the nearest integer, b > 0
RoundDiv(a, b) ==
    IF a >= 0 THEN (2 * a + b) \div (2 * b)
              ELSE -((2 * (-a) + b) \div (2 * b))

\* sin of x degrees, times TrigScale
SinScaled(x) ==
    LET y == x % 360
        B(z) == RoundDiv(TrigScale * 4 * z * (180 - z), 40500 - z * (180 - z))
    IN  IF y <= 180 THEN B(y) ELSE -B(y - 180)

CosScaled(x) == SinScaled(x + 90)

\* np.linspace(0, stop, num)[idx]
Linspace(stop, num, idx) ==
    IF num = 1 THEN 0 ELSE (stop * idx) \div (num - 1)

\* np.zeros(3), np.zeros_like
ZERO == <<0, 1>>
Zeros3 == <<ZERO, ZERO, ZERO>>
ZerosLike(n) == [a \in 1..n |-> [b \in 1..n |-> ZERO]]
IntZeros(n) == [a \in 1..n |-> [b \in 1..n |-> 0]]

Ok(v) == [kind |-> "ok", err |-> "", val |-> v]
Raise(e) == [kind |-> "error", err |-> e, val |-> <<>>]
NoResult == [kind |-> "none", err |-> "", val |-> <<>>]
NoSaved == [radius |-> 0, n |-> -1, out |-> <<>>]

---------------------------------------------------------------------------
\* ElectricField.__init__

InitPosition(pos) == IF Len(pos) = 2 THEN pos \o <<0>> ELSE pos

---------------------------------------------------------------------------
\* ElectricField.calculate_field_at_point

\* mutant: the promotion of a 2-coordinate point forgotten
PromoteNothing(point) == point

PromotePoint(point) ==
    IF Len(point) = 2 THEN <<point[1], point[2], 0>> ELSE point

\* numpy's broadcasting of two 1-d arrays
CanBroadcast(a, b) == Len(a) = Len(b) \/ Len(a) = 1 \/ Len(b) = 1

\* mutant: r = self.position - point
SubtractReversed(a, b) ==
    LET len == IF Len(a) >= Len(b) THEN Len(a) ELSE Len(b)
        At(s, x) == IF Len(s) = 1 THEN s[1] ELSE s[x]
    IN  [x \in 1..len |-> At(b, x) - At(a, x)]

Subtract(a, b) ==
    LET len == IF Len(a) >= Len(b) THEN Len(a) ELSE Len(b)
        At(s, x) == IF Len(s) = 1 THEN s[1] ELSE s[x]
    IN  [x \in 1..len |-> At(a, x) - At(b, x)]

RECURSIVE SumSq(_)
SumSq(r) == IF r = <<>> THEN 0 ELSE Head(r) * Head(r) + SumSq(Tail(r))

\* mutant: the guard written as r_magnitude == 0
IsExactlyAtCharge(m2) == m2 = 0

\* r_magnitude < 1e-10, on the squared norm
IsNearCharge(m2) == m2 < EPS * EPS

\* mutant: self.k + self.charge
FieldNumeratorSum(kk, q, ri) == (kk + q) * ri

FieldNumerator(kk, q, ri) == kk * q * ri

Component(num, m2) == IF num = 0 THEN ZERO ELSE <<num, m2>>

FieldAtPoint(q, pos, kk, point) ==
    LET p == PromotePoint(point)
    IN  IF ~CanBroadcast(p, pos)
        THEN Raise("ValueError")
        ELSE LET r == Subtract(p, pos)
                 m2 == SumSq(r)
             IN  IF IsNearCharge(m2)
                 THEN Ok(Zeros3)
                 ELSE Ok([x \in 1..Len(r) |->
                            Component(FieldNumerator(kk, q, r[x]), m2)])

\* mutant: r aliases self.position and is updated in place
\* (r = self.position; r *= -1; r += point)
SelfAliasedByR(self, point) ==
    IF CanBroadcast(PromotePoint(point), self.position)
          /\ Len(PromotePoint(point)) <= Len(self.position)
    THEN [self EXCEPT !.position = Subtract(PromotePoint(point), self.position)]
    ELSE self

\* The attributes of self after a call of calculate_field_at_point: the method
\* assigns to none of them and makes r a new array.
SelfAfterEval(self, point) == self

\* mutant: the promotion done in place on the caller's array
CallerPointPromotedInPlace(point) == PromotePoint(point)

\* The caller's array after the call: line 28 rebinds the local name only.
CallerPointAfterEval(point) == point

Self == [charge |-> charge, position |-> position, k |-> k]

Bump(c) == IF saved = NoSaved THEN 0 ELSE IF c < 2 THEN c + 1 ELSE 2

CalculateFieldAtPoint(points) ==
    /\ pc = "idle"
    /\ \E point \in points :
         LET s == SelfAfterEval(Self, point)
         IN  /\ result' = FieldAtPoint(charge, position, k, point)
             /\ argPoint' = point
             /\ callerPoint' = CallerPointAfterEval(point)
             /\ charge' = s.charge
             /\ position' = s.position
             /\ k' = s.k
    /\ op' = "eval"
    /\ radius' = 0 /\ n_points' = 0 /\ i' = 0 /\ j' = 0
    /\ X' = <<>> /\ Y' = <<>> /\ Z' = <<>>
    /\ Ex' = <<>> /\ Ey' = <<>> /\ Ez' = <<>>
    /\ callsAt' = <<>>
    /\ callsSince' = Bump(callsSince)
    /\ UNCHANGED <<ctorCharge, ctorPosition, pc, saved>>

---------------------------------------------------------------------------
\* ElectricField.calculate_field_grid

\* phi, theta = np.meshgrid(np.linspace(0, 2*np.pi, n), np.linspace(0, np.pi, n)):
\* phi[a][b] is the b-th longitude, theta[a][b] the a-th colatitude (0-based)
PhiAt(n, a, b) == Linspace(2 * PI, n, b)
ThetaAt(n, a, b) == Linspace(PI, n, a)

GridX(rad, n) ==
    [a \in 1..n |-> [b \in 1..n |->
        RoundDiv(rad * SinScaled(ThetaAt(n, a - 1, b - 1))
                     * CosScaled(PhiAt(n, a - 1, b - 1)), TrigScale * TrigScale)]]
GridY(rad, n) ==
    [a \in 1..n |-> [b \in 1..n |->
        RoundDiv(rad * SinScaled(ThetaAt(n, a - 1, b - 1))
                     * SinScaled(PhiAt(n, a - 1, b - 1)), TrigScale * TrigScale)]]
GridZ(rad, n) ==
    [a \in 1..n |-> [b \in 1..n |->
        RoundDiv(rad * CosScaled(ThetaAt(n, a - 1, b - 1)), TrigScale)]]

\* mutant: the indices swapped, arr[b, a] = v
StoreAtTransposed(arr, a, b, v) == [arr EXCEPT ![b + 1][a + 1] = v]

\* arr[a, b] = v, with 0-based a, b
StoreAt(arr, a, b, v) == [arr EXCEPT ![a + 1][b + 1] = v]

\* the binding of positional arguments to (self, radius, n_points)
BindsGridArgs(nargs) == nargs = GRID_ARITY

\* lines 53-63: np.linspace raises for a negative num; otherwise the arrays are
\* built and the loops entered
CalculateFieldGrid ==
    /\ pc = "idle"
    /\ \E rad \in Radii, n \in NPoints :
         /\ radius' = rad
         /\ n_points' = n
         /\ IF n < 0
            THEN /\ result' = Raise("ValueError")
                 /\ pc' = "idle"
                 /\ X' = <<>> /\ Y' = <<>> /\ Z' = <<>>
                 /\ Ex' = <<>> /\ Ey' = <<>> /\ Ez' = <<>>
                 /\ callsAt' = <<>>
                 /\ callsSince' = Bump(callsSince)
            ELSE /\ result' = NoResult
                 /\ pc' = "loop"
                 /\ X' = GridX(rad, n) /\ Y' = GridY(rad, n) /\ Z' = GridZ(rad, n)
                 /\ Ex' = ZerosLike(n) /\ Ey' = ZerosLike(n) /\ Ez' = ZerosLike(n)
                 /\ callsAt' = IntZeros(n)
                 /\ callsSince' = callsSince
    /\ op' = "grid"
    /\ i' = 0 /\ j' = 0
    /\ argPoint' = <<>> /\ callerPoint' = <<>>
    /\ UNCHANGED <<charge, position, k, ctorCharge, ctorPosition, saved>>

\* lines 65-71: one pass of the inner loop body
GridStep ==
    /\ pc = "loop"
    /\ i < n_points
    /\ LET point == <<X[i + 1][j + 1], Y[i + 1][j + 1], Z[i + 1][j + 1]>>
           E == FieldAtPoint(charge, position, k, point).val
           s == SelfAfterEval(Self, point)
       IN  /\ Ex' = StoreAt(Ex, i, j, E[1])
           /\ Ey' = StoreAt(Ey, i, j, E[2])
           /\ Ez' = StoreAt(Ez, i, j, E[3])
           /\ callsAt' = StoreAt(callsAt, i, j, callsAt[i + 1][j + 1] + 1)
           /\ charge' = s.charge
           /\ position' = s.position
           /\ k' = s.k
    /\ IF j + 1 < n_points
       THEN i' = i /\ j' = j + 1
       ELSE i' = i + 1 /\ j' = 0
    /\ UNCHANGED <<ctorCharge, ctorPosition, pc, op, argPoint, callerPoint, radius,
                   n_points, X, Y, Z, result, saved, callsSince>>

\* line 73: return X, Y, Z, Ex, Ey, Ez; the caller may keep the tuple
GridReturn(keeps) ==
    /\ pc = "loop"
    /\ i >= n_points
    /\ result' = Ok(<<X, Y, Z, Ex, Ey, Ez>>)
    /\ pc' = "idle"
    /\ \E keep \in keeps :
         IF keep
         THEN /\ saved' = [radius |-> radius, n |-> n_points,
                           out |-> <<X, Y, Z, Ex, Ey, Ez>>]
              /\ callsSince' = 0
         ELSE /\ saved' = saved
              /\ callsSince' = Bump(callsSince)
    /\ UNCHANGED <<charge, position, k, ctorCharge, ctorPosition, op, argPoint, callerPoint,
                   radius, n_points, i, j, X, Y, Z, Ex, Ey, Ez, callsAt>>

---------------------------------------------------------------------------
\* FieldVisualizer.create_plot, lines 27-30:
\*   X, Y, Ex, Ey = field.calculate_field_grid(x_range, y_range, n_points)
\* Three positional arguments do not bind to (radius, n_points): the call raises
\* TypeError and create_plot ends there.
CreatePlot ==
    /\ pc = "idle"
    /\ LET x_range == <<-2, 2>>
           y_range == <<-2, 2>>
           args == <<x_range, y_range, <<PLOT_N_POINTS>>>>
       IN  result' = IF BindsGridArgs(Len(args))
                     THEN Ok(<<>>)
                     ELSE Raise("TypeError")
    /\ op' = "plot"
    /\ radius' = 0 /\ n_points' = 0 /\ i' = 0 /\ j' = 0
    /\ X' = <<>> /\ Y' = <<>> /\ Z' = <<>>
    /\ Ex' = <<>> /\ Ey' = <<>> /\ Ez' = <<>>
    /\ callsAt' = <<>>
    /\ argPoint' = <<>> /\ callerPoint' = <<>>
    /\ callsSince' = Bump(callsSince)
    /\ UNCHANGED <<charge, position, k, ctorCharge, ctorPosition, pc, saved>>

---------------------------------------------------------------------------
Init ==
    /\ ctorCharge \in Charges
    /\ ctorPosition \in CtorPositions
    /\ charge = ctorCharge
    /\ position = InitPosition(ctorPosition)
    /\ k = COULOMB_K
    /\ pc = "idle"
    /\ op = "none"
    /\ argPoint = <<>> /\ callerPoint = <<>>
    /\ radius = 0 /\ n_points = 0 /\ i = 0 /\ j = 0
    /\ X = <<>> /\ Y = <<>> /\ Z = <<>>
    /\ Ex = <<>> /\ Ey = <<>> /\ Ez = <<>>
    /\ callsAt = <<>>
    /\ result = NoResult
    /\ saved = NoSaved
    /\ callsSince = 0

Next ==
    \/ CalculateFieldAtPoint(Points)
    \/ CalculateFieldGrid
    \/ GridStep
    \/ GridReturn({FALSE})
    \/ CreatePlot

Spec == Init /\ [][Next]_vars

\* The same calls, with the caller keeping SampleSets to compare later ones with
NextRepeat ==
    \/ CalculateFieldAtPoint(FewPoints)
    \/ CalculateFieldGrid
    \/ GridStep
    \/ GridReturn(BOOLEAN)

InitRepeat ==
    /\ Init
    /\ ctorCharge \in {-1, 2}
    /\ ctorPosition \in {<<1, -1>>, <<0, 0, 1>>}

SpecRepeat == InitRepeat /\ [][NextRepeat]_vars

---------------------------------------------------------------------------
\* Properties

\* What the properties say about the last calculate_field_at_point call, written
\* from the call's arguments and the charge alone.
ValidQuery == op = "eval" /\ Len(argPoint) \in {2, 3}
QueryR ==
    [x \in 1..3 |->
        (IF x <= Len(argPoint) THEN argPoint[x] ELSE 0) - position[x]]
QueryDistSq == QueryR[1] * QueryR[1] + QueryR[2] * QueryR[2] + QueryR[3] * QueryR[3]
NearSingular == QueryDistSq < EPS * EPS
GridDone == op = "grid" /\ pc = "idle"
IsSquare(arr, n) == Len(arr) = n /\ \A a \in 1..n : Len(arr[a]) = n

\* C1: a query point closer than 1e-10 to the charge position gives the
\* all-zero vector, of the dimensionality of the charge, and no error.
C1_NearChargeIsZero ==
    (ValidQuery /\ NearSingular) =>
        /\ result.kind = "ok"
        /\ Len(result.val) = Len(position)
        /\ \A x \in 1..Len(result.val) : result.val[x] = <<0, 1>>

C1_Witness ==
    /\ ValidQuery /\ NearSingular
    /\ QueryDistSq > 0
    /\ charge # 0
    /\ result.kind = "ok"

\* C2: every query point whose number of coordinates differs from the charge's,
\* other than a 2-coordinate point for a 3D charge, is rejected with an error.
C2_MismatchIsRejected ==
    (op = "eval" /\ Len(argPoint) # Len(position) /\ Len(argPoint) # 2) =>
        result.kind = "error"

\* C3: calculate_field_grid with n_points <= 0 or radius <= 0 raises before any
\* field evaluation; a call ends with the full n_points x n_points SampleSet or
\* with an error after zero evaluations, never with an empty or partial one.
C3_InvalidParametersRejected ==
    /\ (op = "grid" /\ (n_points <= 0 \/ radius <= 0)) =>
          \A a \in 1..Len(callsAt) : \A b \in 1..Len(callsAt[a]) : callsAt[a][b] = 0
    /\ (GridDone /\ (n_points <= 0 \/ radius <= 0)) =>
          result.kind = "error"
    /\ (GridDone /\ result.kind = "ok") =>
          /\ n_points >= 1
          /\ \A m \in 1..6 : IsSquare(result.val[m], n_points)

\* C4: the grid call of the 2D plotting path, with (x_range, y_range, n_points),
\* returns the four arrays X, Y, Ex, Ey, each n_points x n_points, the
\* coordinates running from the lower to the upper end of each range.
C4_PlotGridReturnsFourArrays ==
    op = "plot" =>
        /\ result.kind = "ok"
        /\ Len(result.val) = 4
        /\ \A m \in 1..4 : IsSquare(result.val[m], PLOT_N_POINTS)
        /\ result.val[1][1][1] = -2
        /\ result.val[1][1][PLOT_N_POINTS] = 2
        /\ result.val[2][1][1] = -2
        /\ result.val[2][PLOT_N_POINTS][1] = 2

\* C5: for n_points >= 1 the returned position and vector arrays are all
\* n_points x n_points, the field was evaluated exactly once for every (a, b),
\* and the vector stored at (a, b) is the field at the position stored at (a, b).
C5_SampleSetIndexed ==
    /\ (op = "grid" /\ pc = "loop") =>
          \A a \in 1..n_points : \A b \in 1..n_points :
              callsAt[a][b] = (IF (a - 1) * n_points + (b - 1) < i * n_points + j
                               THEN 1 ELSE 0)
    /\ (GridDone /\ result.kind = "ok" /\ n_points >= 1) =>
          /\ Len(result.val) = 6
          /\ \A m \in 1..6 : IsSquare(result.val[m], n_points)
          /\ \A a \in 1..n_points : \A b \in 1..n_points :
                /\ callsAt[a][b] = 1
                /\ LET at == FieldAtPoint(charge, position, k,
                                 <<result.val[1][a][b], result.val[2][a][b],
                                   result.val[3][a][b]>>)
                   IN  /\ at.kind = "ok"
                       /\ <<result.val[4][a][b], result.val[5][a][b],
                            result.val[6][a][b]>> = at.val

C5_Witness ==
    /\ GridDone /\ result.kind = "ok"
    /\ n_points >= 3 /\ radius > 0 /\ charge # 0
    /\ \E a \in 1..n_points : \E b \in 1..n_points :
          /\ a # b
          /\ result.val[4][a][b] # result.val[4][b][a]

\* C6: a calculate_field_grid call with the radius and n_points of an earlier
\* call returns the arrays the earlier call returned, whatever calls were made
\* in between.
C6_SampleDeterministic ==
    (GridDone /\ result.kind = "ok" /\ saved # NoSaved
        /\ saved.radius = radius /\ saved.n = n_points) =>
        result.val = saved.out

C6_Witness ==
    /\ GridDone /\ result.kind = "ok" /\ saved # NoSaved
    /\ saved.radius = radius /\ saved.n = n_points
    /\ callsSince = 2
    /\ n_points >= 2 /\ radius > 0 /\ charge # 0

\* C7: away from the singularity every field component has the sign of the
\* matching component of r = point - position for a positive charge, the
\* opposite sign for a negative charge, and the field is zero for charge 0.
C7_DirectionSign ==
    (ValidQuery /\ ~NearSingular) =>
        /\ result.kind = "ok"
        /\ Len(result.val) = 3
        /\ \A x \in 1..3 :
              /\ Sign(result.val[x][1]) = Sign(charge) * Sign(QueryR[x])
              /\ result.val[x][2] > 0
        /\ (charge = 0 => result.val = <<<<0, 1>>, <<0, 1>>, <<0, 1>>>>)

C7_Witness ==
    /\ ValidQuery /\ ~NearSingular
    /\ charge < 0
    /\ \E x \in 1..3 : QueryR[x] > 0 /\ result.val[x][1] < 0

\* C8: at a non-singular point the field of a charge of magnitude 2q is twice,
\* component by component, the field of a charge of magnitude q; whether a point
\* is treated as singular does not depend on the magnitude.
C8_MagnitudeScaling ==
    ValidQuery =>
        LET twice == FieldAtPoint(2 * charge, position, k, argPoint)
        IN  /\ twice.kind = result.kind
            /\ Len(twice.val) = Len(result.val)
            /\ \A x \in 1..Len(result.val) :
                  /\ twice.val[x][1] = 2 * result.val[x][1]
                  /\ twice.val[x][2] = result.val[x][2]
            /\ \A q \in Charges \ {0} :
                  (FieldAtPoint(q, position, k, argPoint).val
                       = <<<<0, 1>>, <<0, 1>>, <<0, 1>>>>) <=> NearSingular

C8_Witness ==
    /\ ValidQuery /\ ~NearSingular
    /\ charge # 0
    /\ \E x \in 1..3 : result.val[x][1] # 0

\* C9: a 2-coordinate point (x, y) gives what the point (x, y, 0) gives, and a
\* charge constructed at (px, py) gives what a charge constructed at (px, py, 0)
\* gives.
C9_Promotion ==
    /\ (op = "eval" /\ Len(argPoint) = 2) =>
          /\ result.kind = "ok"
          /\ result = FieldAtPoint(charge, position, k,
                                   <<argPoint[1], argPoint[2], 0>>)
    /\ (op = "eval" /\ Len(ctorPosition) = 2) =>
          result = FieldAtPoint(charge,
                      InitPosition(<<ctorPosition[1], ctorPosition[2], 0>>),
                      k, argPoint)

C9_Witness ==
    /\ op = "eval" /\ Len(argPoint) = 2 /\ Len(ctorPosition) = 2
    /\ ~NearSingular /\ charge # 0
    /\ result.kind = "ok"
    /\ result.val[1][1] # 0

\* C10: no call changes the charge's magnitude, position, dimensionality or k,
\* and the caller's query point is left as it was passed.
C10_NothingMutated ==
    /\ charge = ctorCharge
    /\ position = InitPosition(ctorPosition)
    /\ Len(position) = 3
    /\ k = COULOMB_K
    /\ callerPoint = argPoint

C10_Witness ==
    /\ op = "eval" /\ Len(argPoint) = 2 /\ result.kind = "ok"
    /\ Len(callerPoint) = 2
    /\ ~NearSingular

===========================================================================
